---- MODULE Spec2Model ----
(***************************************************************************)
(* Model of the geolocation HTTP API (src/src/api_geolocation/main.py)     *)
(* over the SQLite table created by db_setup.py.                           *)
(*                                                                         *)
(* Text values are sequences of one-character strings, so that strip()     *)
(* and title() are computed character by character.  REAL values are       *)
(* written in hundredths (34.04 is 3404).  An optional parameter is a set: *)
(* {} is None and {v} is the supplied value v.                             *)
(*                                                                         *)
(* Each request runs in its own worker: get_db_session up to its yield     *)
(* (Begin), then the handler, one action per statement executed against    *)
(* the store, then the rest of get_db_session (Finish).                    *)
(***************************************************************************)
EXTENDS Integers, Sequences, FiniteSets, TLC

VARIABLES db, reqs, open_connections

vars == <<db, reqs, open_connections>>

\* Concurrent request workers.
Requests == {1, 2}

\* Largest explicit limit= value tried by a filter search.
MaxLimit == 2

(***************************************************************************)
(* Text                                                                    *)
(***************************************************************************)
LowerChars == <<"a","b","c","d","e","f","g","h","i","j","k","l","m",
                "n","o","p","q","r","s","t","u","v","w","x","y","z">>

UpperChars == <<"A","B","C","D","E","F","G","H","I","J","K","L","M",
                "N","O","P","Q","R","S","T","U","V","W","X","Y","Z">>

IsLower(c) == \E i \in DOMAIN LowerChars : LowerChars[i] = c

IsUpper(c) == \E i \in DOMAIN UpperChars : UpperChars[i] = c

IsCased(c) == IsLower(c) \/ IsUpper(c)

IsSpace(c) == c \in {" ", "\t", "\n"}

ToUpper(c) == IF IsLower(c)
              THEN UpperChars[CHOOSE i \in DOMAIN LowerChars : LowerChars[i] = c]
              ELSE c

ToLower(c) == IF IsUpper(c)
              THEN LowerChars[CHOOSE i \in DOMAIN UpperChars : UpperChars[i] = c]
              ELSE c

RECURSIVE LStrip(_)
LStrip(s) == IF s # <<>> /\ IsSpace(Head(s)) THEN LStrip(Tail(s)) ELSE s

RECURSIVE RStrip(_)
RStrip(s) == IF s # <<>> /\ IsSpace(s[Len(s)])
             THEN RStrip(SubSeq(s, 1, Len(s) - 1))
             ELSE s

\* str.strip()
Strip(s) == RStrip(LStrip(s))

\* str.title(): a cased character is upper-cased when the character before it
\* is not cased (or there is none) and lower-cased otherwise.
Title(s) == [i \in 1..Len(s) |->
               IF i = 1 \/ ~IsCased(s[i - 1]) THEN ToUpper(s[i]) ELSE ToLower(s[i])]

\* RecordInput.sanitize_strings
sanitize_strings(value) == Title(Strip(value))

(***************************************************************************)
(* Values used by the requests                                             *)
(***************************************************************************)
Ip1234 == <<"1",".","2",".","3",".","4">>

IpSeed == <<"1","9","2",".","0","0","0",".","0","0","0",".","0","0","0">>

poland == <<"p","o","l","a","n","d">>

Poland == <<"P","o","l","a","n","d">>

silesiaPadded == <<" ","s","i","l","e","s","i","a"," ">>

Silesia == <<"S","i","l","e","s","i","a">>

katowice == <<"k","a","t","o","w","i","c","e">>

Katowice == <<"K","a","t","o","w","i","c","e">>

Krakow == <<"K","r","a","k","o","w">>

None == {}

Some(v) == {v}

Present(x) == x # {}

Val(x) == CHOOSE v \in x : TRUE

(***************************************************************************)
(* Storage: table geolocation                                              *)
(***************************************************************************)
\* The table as db_setup.py leaves it: one row, id 1.
SeedTable ==
  << [id |-> 1, ip_address |-> IpSeed, country |-> Poland, region |-> Silesia,
      city |-> Katowice, zip |-> 40514, latitude |-> 3404, longitude |-> -11802] >>

\* id INTEGER PRIMARY KEY AUTOINCREMENT: one more than the largest id handed out;
\* no row is ever deleted, so that is the number of rows.
NextId(d) == Len(d) + 1

\* Mutant of InsertRow: INSERT OR IGNORE over a UNIQUE ip_address.
InsertRowIgnoreDuplicate(d, record) ==
  IF \E i \in 1..Len(d) : d[i].ip_address = record.ip
  THEN d
  ELSE Append(d, [id |-> NextId(d), ip_address |-> record.ip, country |-> record.country,
                  region |-> record.region, city |-> record.city, zip |-> record.zip_code,
                  latitude |-> record.latitude, longitude |-> record.longitude])

\* Mutant of InsertRow: INSERT OR REPLACE over a UNIQUE ip_address.
InsertRowOrReplace(d, record) ==
  Append(SelectSeq(d, LAMBDA row : row.ip_address # record.ip),
         [id |-> NextId(d), ip_address |-> record.ip, country |-> record.country,
          region |-> record.region, city |-> record.city, zip |-> record.zip_code,
          latitude |-> record.latitude, longitude |-> record.longitude])

\* INSERT INTO geolocation (ip_address, ..., longitude) VALUES (?, ..., ?); commit.
\* No UNIQUE constraint on ip_address: the row is always appended.
InsertRow(d, record) ==
  Append(d, [id |-> NextId(d), ip_address |-> record.ip, country |-> record.country,
             region |-> record.region, city |-> record.city, zip |-> record.zip_code,
             latitude |-> record.latitude, longitude |-> record.longitude])

\* SELECT * FROM geolocation WHERE ip_address = ?
SelectByIp(d, ip) == SelectSeq(d, LAMBDA row : row.ip_address = ip)

\* __transform_rows_to_records
Record(row) ==
  [ip_address |-> row.ip_address, country |-> row.country, region |-> row.region,
   city |-> row.city, zip_code |-> row.zip, latitude |-> row.latitude,
   longitude |-> row.longitude]

transform_rows_to_records(rows) == [i \in 1..Len(rows) |-> Record(rows[i])]

(***************************************************************************)
(* RecordInput                                                             *)
(***************************************************************************)
MinLenIp == 7

MaxLenIp == 45

MinLenText == 1

MaxLenText == 100

MinZipCode == 1

LimitDefault == 10

\* Whether pydantic collects sanitize_strings as a validator of RecordInput.
\* It collects the class attributes that are its own decorator proxies
\* (what field_validator returns).  Here classmethod is applied on top of
\* field_validator, so the class attribute is a classmethod object wrapping the
\* proxy, and nothing is collected.
ValidatorCollected == FALSE

\* The mode="before" step of a string field of RecordInput.
BeforeValidate(value) == IF ValidatorCollected THEN sanitize_strings(value) ELSE value

\* RecordInput(**body): field values after the "before" validators.
RecordInput(body) ==
  [ip |-> BeforeValidate(body.ip), country |-> BeforeValidate(body.country),
   region |-> BeforeValidate(body.region), city |-> BeforeValidate(body.city),
   zip_code |-> body.zip_code, latitude |-> body.latitude, longitude |-> body.longitude]

\* The Field constraints of RecordInput, on the values RecordInput(body) holds.
ValidRecordInput(record) ==
  /\ Len(record.ip) >= MinLenIp /\ Len(record.ip) <= MaxLenIp
  /\ \A f \in {"country", "region", "city"} :
       Len(record[f]) >= MinLenText /\ Len(record[f]) <= MaxLenText
  /\ record.zip_code >= MinZipCode

(***************************************************************************)
(* Inputs                                                                  *)
(***************************************************************************)
PathIps == {Ip1234, IpSeed}

\* The address the update requests name: it has no row until one is created.
UpdateIps == {Ip1234}

BodyNew ==
  [ip |-> Ip1234, country |-> poland, region |-> silesiaPadded, city |-> katowice,
   zip_code |-> 40514, latitude |-> 3404, longitude |-> -11802]

BodySeed ==
  [ip |-> IpSeed, country |-> Poland, region |-> Silesia, city |-> Katowice,
   zip_code |-> 40514, latitude |-> 3404, longitude |-> -11802]

BodyBadZip == [BodyNew EXCEPT !.zip_code = 0]

Bodies == {BodyNew, BodySeed, BodyBadZip}

NoParams ==
  [country |-> None, region |-> None, city |-> None, zip_code |-> None,
   latitude |-> None, longitude |-> None]

UpdateInputs ==
  { NoParams,
    [NoParams EXCEPT !.city = Some(Krakow)],
    [NoParams EXCEPT !.city = Some(Katowice), !.latitude = Some(0)] }

NoFilters ==
  [ip |-> None, country |-> None, region |-> None, city |-> None, zip_code |-> None,
   latitude |-> None, longitude |-> None]

FilterByCountryZip == [NoFilters EXCEPT !.country = Some(Poland), !.zip_code = Some(40514)]

FilterByLatitude == [NoFilters EXCEPT !.latitude = Some(0)]

FilterByIpCity == [NoFilters EXCEPT !.ip = Some(Ip1234), !.city = Some(Krakow)]

\* The filter searches tried: filters and limit.
SearchInputs ==
  { [filters |-> NoFilters, limit |-> l] : l \in {1, LimitDefault} }
    \cup { [filters |-> FilterByLatitude, limit |-> l] : l \in 1..MaxLimit }
    \cup { [filters |-> f, limit |-> LimitDefault] : f \in {FilterByCountryZip, FilterByIpCity} }

(***************************************************************************)
(* Query builders                                                          *)
(***************************************************************************)
\* _RECORD_TO_SQL_MAPPER of get_ip_info_by_parameters: column -> parameter.
FilterMapper(f) ==
  [ip_address |-> f.ip, country |-> f.country, region |-> f.region, city |-> f.city,
   zip |-> f.zip_code, latitude |-> f.latitude, longitude |-> f.longitude]

\* Mutant of AnyFilter: any(param for param in [...]), the truth value of the
\* parameter instead of "is not None".
AnyFilterTruthy(f) ==
  \E p \in {"ip", "country", "region", "city", "zip_code", "latitude", "longitude"} :
     /\ Present(f[p])
     /\ p \in {"zip_code", "latitude", "longitude"} => Val(f[p]) # 0

\* any(param is not None for param in [ip, ..., longitude])
AnyFilter(f) ==
  \E p \in {"ip", "country", "region", "city", "zip_code", "latitude", "longitude"} :
     Present(f[p])

\* The columns a condition "column = ?" is appended for.
Conditions(mapper) == {c \in DOMAIN mapper : Present(mapper[c])}

\* WHERE c1 = ? AND c2 = ? ...
Matches(row, mapper) == \A c \in Conditions(mapper) : row[c] = Val(mapper[c])

\* Mutant of SelectFiltered: the conditions joined by OR.
SelectFilteredOr(d, f, limit) ==
  LET mapper == FilterMapper(f)
      found == SelectSeq(d, LAMBDA row :
                 \E c \in Conditions(mapper) : row[c] = Val(mapper[c]))
  IN  IF limit # 0 /\ limit < Len(found) THEN SubSeq(found, 1, limit) ELSE found

\* SELECT * FROM geolocation WHERE ... LIMIT limit: the first rows, in id order.
SelectFiltered(d, f, limit) ==
  LET found == SelectSeq(d, LAMBDA row : Matches(row, FilterMapper(f)))
  IN  IF limit # 0 /\ limit < Len(found) THEN SubSeq(found, 1, limit) ELSE found

\* _RECORD_TO_SQL_MAPPER of update_data: column -> parameter.
UpdateMapper(p) ==
  [country |-> p.country, region |-> p.region, city |-> p.city, zip |-> p.zip_code,
   latitude |-> p.latitude, longitude |-> p.longitude]

\* all(param is None for param in (country, ..., longitude))
AllNone(p) ==
  \A f \in {"country", "region", "city", "zip_code", "latitude", "longitude"} :
     ~Present(p[f])

\* Mutant of ApplyUpdate: "if value:" instead of "if value is not None", so a
\* supplied 0 is not written.
ApplyUpdateTruthy(d, ip, p) ==
  LET mapper == UpdateMapper(p)
      written == {c \in Conditions(mapper) :
                    c \in {"zip", "latitude", "longitude"} => Val(mapper[c]) # 0}
  IN  [i \in 1..Len(d) |->
        IF d[i].ip_address = ip
        THEN [c \in DOMAIN d[i] |-> IF c \in written THEN Val(mapper[c]) ELSE d[i][c]]
        ELSE d[i]]

\* UPDATE geolocation SET c1 = ?, ... WHERE ip_address = ?; commit.
ApplyUpdate(d, ip, p) ==
  LET mapper == UpdateMapper(p)
  IN  [i \in 1..Len(d) |->
        IF d[i].ip_address = ip
        THEN [c \in DOMAIN d[i] |->
                IF c \in Conditions(mapper) THEN Val(mapper[c]) ELSE d[i][c]]
        ELSE d[i]]

(***************************************************************************)
(* Requests                                                                *)
(* A request holds its handler's parameters and locals: ip, args (the      *)
(* RecordInput, the filters or the update parameters), rows, and the       *)
(* response (status, body).  conn: it holds the connection get_db_session  *)
(* opened for it.  History, read by the properties only: err (a statement  *)
(* raised sqlite3.Error), stmts (statements it executed against the        *)
(* store), raced (another request committed an UPDATE of the same          *)
(* ip_address after this update_data's existence check).                   *)
(***************************************************************************)
Idle ==
  [op |-> "idle", pc |-> "idle", ip |-> <<>>, args |-> <<>>, rows |-> <<>>,
   status |-> 0, body |-> <<>>, conn |-> FALSE, err |-> FALSE, stmts |-> 0,
   raced |-> FALSE]

Quiet(r) == reqs[r].pc \in {"idle", "done"}

\* sqlite3.connect(_PATH_DATABASE): one more open connection, a new object on
\* every call (open_connections counts the connection objects that are open).
Connect(n) == n + 1

\* Mutant of CloseConnection: the connection is left open.
CloseConnectionSkipped(n) == n

\* finally: connection.close()
CloseConnection(n) == n - 1

\* raise HTTPException / return: the response is fixed and get_db_session resumes.
Respond(q, status, body) == [q EXCEPT !.pc = "exit", !.status = status, !.body = body]

\* A statement raised sqlite3.Error: the handlers that catch it raise
\* HTTPException(500); the others let it reach get_db_session, which prints it,
\* and the request is answered 500.
StorageError(q) == [Respond(q, 500, <<>>) EXCEPT !.err = TRUE]

Executed(q) == [q EXCEPT !.stmts = @ + 1]

\* get_ip_info
get_ip_info(q, d, ok) ==
  LET rows == SelectByIp(d, q.ip)
  IN  IF ~ok THEN StorageError(Executed(q))
      ELSE IF rows = <<>> THEN Respond(Executed(q), 404, <<>>)
      ELSE Respond(Executed(q), 200, transform_rows_to_records(rows))

\* get_ip_info_by_parameters
get_ip_info_by_parameters(q, d, ok) ==
  LET rows == SelectFiltered(d, q.args.filters, q.args.limit)
  IN  IF ~AnyFilter(q.args.filters) THEN Respond(q, 400, <<>>)
      ELSE IF ~ok THEN StorageError(Executed(q))
      ELSE IF rows = <<>> THEN Respond(Executed(q), 404, <<>>)
      ELSE Respond(Executed(q), 200, transform_rows_to_records(rows))

\* Mutant of AlreadyExists: the test inverted.
AlreadyExistsInverted(rows) == rows = <<>>

\* if rows: raise HTTPException(400)
AlreadyExists(rows) == rows # <<>>

\* add_ip, lines 222-231: the existence check.
add_ip_check(q, d, ok) ==
  LET rows == SelectByIp(d, q.args.ip)
  IN  IF ~ok THEN StorageError(Executed(q))
      ELSE IF AlreadyExists(rows) THEN Respond(Executed(q), 400, <<>>)
      ELSE [Executed(q) EXCEPT !.pc = "insert", !.rows = rows]

\* add_ip, lines 233-256: the response to the INSERT and commit.
add_ip_insert(q, ok) ==
  IF ok THEN Respond(Executed(q), 200, <<q.args>>) ELSE StorageError(Executed(q))

\* Mutant of update_data_check: the existence check before the parameter check.
update_data_check_existence_first(q, d, ok) ==
  LET rows == SelectByIp(d, q.ip)
  IN  IF ~ok THEN StorageError(Executed(q))
      ELSE IF rows = <<>> THEN Respond(Executed(q), 404, <<>>)
      ELSE IF AllNone(q.args) THEN Respond(Executed(q), 400, <<>>)
      ELSE [Executed(q) EXCEPT !.pc = "update", !.rows = rows]

\* update_data, lines 297-320: the parameter check and the existence check.
update_data_check(q, d, ok) ==
  LET rows == SelectByIp(d, q.ip)
  IN  IF AllNone(q.args) THEN Respond(q, 400, <<>>)
      ELSE IF ~ok THEN StorageError(Executed(q))
      ELSE IF rows = <<>> THEN Respond(Executed(q), 404, <<>>)
      ELSE [Executed(q) EXCEPT !.pc = "update", !.rows = rows]

\* update_data, lines 322-337: after UPDATE and commit.
update_data_write(q, ok) ==
  IF ok THEN [Executed(q) EXCEPT !.pc = "reread"] ELSE StorageError(Executed(q))

\* Mutant of update_data_reread: the rows of the existence check are returned.
update_data_reread_stale(q, d, ok) ==
  IF ~ok THEN StorageError(Executed(q))
  ELSE Respond(Executed(q), 200, <<transform_rows_to_records(q.rows)[1]>>)

\* update_data, lines 339-346: the re-read and the response.
update_data_reread(q, d, ok) ==
  LET rows == SelectByIp(d, q.ip)
  IN  IF ~ok THEN StorageError(Executed(q))
      ELSE Respond([Executed(q) EXCEPT !.rows = rows], 200,
                   <<transform_rows_to_records(rows)[1]>>)

\* Another request's UPDATE of ip_address ip has committed.
NoteWrite(q, ip) ==
  IF q.op = "update_data" /\ q.pc \in {"update", "reread"} /\ q.ip = ip
  THEN [q EXCEPT !.raced = TRUE]
  ELSE q

(***************************************************************************)
(* Actions                                                                 *)
(***************************************************************************)
Init ==
  /\ db = SeedTable
  /\ reqs = [r \in Requests |-> Idle]
  /\ open_connections = 0

\* get_db_session up to the yield: the request holds the connection it opened.
Acquire(r, op, pc, ip, args) ==
  /\ open_connections' = Connect(open_connections)
  /\ reqs' = [reqs EXCEPT ![r] =
                [Idle EXCEPT !.op = op, !.pc = pc, !.ip = ip, !.args = args,
                             !.conn = TRUE]]

\* GET / : index has no dependency on get_db_session.
Index(r) ==
  /\ Quiet(r)
  /\ reqs' = [reqs EXCEPT ![r] =
                Respond([Idle EXCEPT !.op = "index"], 200, <<>>)]
  /\ UNCHANGED <<db, open_connections>>

BeginGetIp(r) ==
  /\ Quiet(r)
  /\ \E ip \in PathIps : Acquire(r, "get_ip_info", "select", ip, <<>>)
  /\ UNCHANGED db

BeginSearch(r) ==
  /\ Quiet(r)
  /\ \E input \in SearchInputs :
       Acquire(r, "get_ip_info_by_parameters", "select", <<>>, input)
  /\ UNCHANGED db

\* POST / : the body is validated into a RecordInput before add_ip is called.
BeginAdd(r) ==
  /\ Quiet(r)
  /\ \E body \in Bodies :
       /\ ValidRecordInput(RecordInput(body))
       /\ Acquire(r, "add_ip", "check", <<>>, RecordInput(body))
  /\ UNCHANGED db

\* POST / with a body that fails the Field constraints: answered 422, add_ip
\* never runs.
BeginAddInvalid(r) ==
  /\ Quiet(r)
  /\ \E body \in Bodies :
       /\ ~ValidRecordInput(RecordInput(body))
       /\ open_connections' = Connect(open_connections)
       /\ reqs' = [reqs EXCEPT ![r] =
                     Respond([Idle EXCEPT !.op = "add_ip", !.conn = TRUE], 422, <<>>)]
  /\ UNCHANGED db

BeginUpdate(r) ==
  /\ Quiet(r)
  /\ \E ip \in UpdateIps, p \in UpdateInputs : Acquire(r, "update_data", "check", ip, p)
  /\ UNCHANGED db

GetIp(r) ==
  /\ reqs[r].op = "get_ip_info" /\ reqs[r].pc = "select"
  /\ \E ok \in BOOLEAN : reqs' = [reqs EXCEPT ![r] = get_ip_info(reqs[r], db, ok)]
  /\ UNCHANGED <<db, open_connections>>

Search(r) ==
  /\ reqs[r].op = "get_ip_info_by_parameters" /\ reqs[r].pc = "select"
  /\ \E ok \in BOOLEAN :
       reqs' = [reqs EXCEPT ![r] = get_ip_info_by_parameters(reqs[r], db, ok)]
  /\ UNCHANGED <<db, open_connections>>

AddCheck(r) ==
  /\ reqs[r].op = "add_ip" /\ reqs[r].pc = "check"
  /\ \E ok \in BOOLEAN : reqs' = [reqs EXCEPT ![r] = add_ip_check(reqs[r], db, ok)]
  /\ UNCHANGED <<db, open_connections>>

AddInsert(r) ==
  /\ reqs[r].op = "add_ip" /\ reqs[r].pc = "insert"
  /\ \E ok \in BOOLEAN :
       /\ db' = IF ok THEN InsertRow(db, reqs[r].args) ELSE db
       /\ reqs' = [reqs EXCEPT ![r] = add_ip_insert(reqs[r], ok)]
  /\ UNCHANGED open_connections

UpdateCheck(r) ==
  /\ reqs[r].op = "update_data" /\ reqs[r].pc = "check"
  /\ \E ok \in BOOLEAN :
       reqs' = [reqs EXCEPT ![r] = update_data_check(reqs[r], db, ok)]
  /\ UNCHANGED <<db, open_connections>>

UpdateWrite(r) ==
  /\ reqs[r].op = "update_data" /\ reqs[r].pc = "update"
  /\ \E ok \in BOOLEAN :
       /\ db' = IF ok THEN ApplyUpdate(db, reqs[r].ip, reqs[r].args) ELSE db
       /\ reqs' = [q \in Requests |->
                     IF q = r THEN update_data_write(reqs[r], ok)
                     ELSE IF ok THEN NoteWrite(reqs[q], reqs[r].ip)
                     ELSE reqs[q]]
  /\ UNCHANGED open_connections

UpdateReread(r) ==
  /\ reqs[r].op = "update_data" /\ reqs[r].pc = "reread"
  /\ \E ok \in BOOLEAN :
       reqs' = [reqs EXCEPT ![r] = update_data_reread(reqs[r], db, ok)]
  /\ UNCHANGED <<db, open_connections>>

\* The end of the request: get_db_session after the yield closes the connection.
Finish(r) ==
  /\ reqs[r].pc = "exit"
  /\ open_connections' = IF reqs[r].conn
                         THEN CloseConnection(open_connections)
                         ELSE open_connections
  /\ reqs' = [reqs EXCEPT ![r] = [Idle EXCEPT !.pc = "done", !.status = reqs[r].status]]
  /\ UNCHANGED db

Begin(r) ==
  \/ Index(r) \/ BeginGetIp(r) \/ BeginSearch(r) \/ BeginAdd(r) \/ BeginAddInvalid(r)
  \/ BeginUpdate(r)

Step(r) ==
  \/ GetIp(r) \/ Search(r) \/ AddCheck(r) \/ AddInsert(r)
  \/ UpdateCheck(r) \/ UpdateWrite(r) \/ UpdateReread(r) \/ Finish(r)

Next == \E r \in Requests : Begin(r) \/ Step(r)

Spec == Init /\ [][Next]_vars

\* Requests one at a time: a request begins only when no other is in flight.
BeginAlone(r) == (\A o \in Requests : Quiet(o)) /\ Begin(r)

NextSerial == \E r \in Requests : BeginAlone(r) \/ Step(r)

SpecSerial == Init /\ [][NextSerial]_vars

(***************************************************************************)
(* Properties                                                              *)
(***************************************************************************)
FilterNames == {"ip", "country", "region", "city", "zip_code", "latitude", "longitude"}

UpdateNames == {"country", "region", "city", "zip_code", "latitude", "longitude"}

\* The column a parameter is compared with or written to.
ColumnOf(name) ==
  IF name = "ip" THEN "ip_address" ELSE IF name = "zip_code" THEN "zip" ELSE name

Supplied(params, names) == {n \in names : params[n] # {}}

RowsFor(d, ip) == {i \in 1..Len(d) : d[i].ip_address = ip}

\* The rows equal to the supplied value on every present filter.
Matching(d, f) ==
  {i \in 1..Len(d) :
     \A n \in Supplied(f, FilterNames) : \A v \in f[n] : d[i][ColumnOf(n)] = v}

\* The response record of a stored row.
RecordOf(row) ==
  [ip_address |-> row[ColumnOf("ip")], country |-> row[ColumnOf("country")],
   region |-> row[ColumnOf("region")], city |-> row[ColumnOf("city")],
   zip_code |-> row[ColumnOf("zip_code")], latitude |-> row[ColumnOf("latitude")],
   longitude |-> row[ColumnOf("longitude")]]

Smaller(a, b) == IF a < b THEN a ELSE b

\* The sanitized fields of a request body, as a response record.
SanitizedRecord(body) ==
  [ip_address |-> sanitize_strings(body.ip), country |-> sanitize_strings(body.country),
   region |-> sanitize_strings(body.region), city |-> sanitize_strings(body.city),
   zip_code |-> body.zip_code, latitude |-> body.latitude, longitude |-> body.longitude]

Is(r, op, pc) == reqs[r].op = op /\ reqs[r].pc = pc

\* C1: with requests one at a time, once a create of body I has succeeded, a
\* point lookup by I.ip answers 200 with exactly the sanitized fields of I
\* (text fields stripped and title-cased, the numbers as supplied).
C1_LookupReturnsSanitized ==
  \A r \in Requests :
    Is(r, "add_ip", "exit") /\ reqs[r].status = 200 =>
      \A body \in Bodies :
        RecordInput(body) = reqs[r].args =>
          LET resp == get_ip_info([Idle EXCEPT !.ip = body.ip], db, TRUE)
          IN  resp.status = 200 /\ resp.body = <<SanitizedRecord(body)>>

\* C2: with requests one at a time, a create whose ip_address already has a
\* row ends at its existence check with 400 and the store unchanged, and a
\* create that got past the check has no row for its ip_address in the store.
C2_DuplicateCreateRejected ==
  [][\A r \in Requests :
       /\ (/\ Is(r, "add_ip", "check") /\ reqs'[r].pc # "check"
           /\ RowsFor(db, reqs[r].args.ip) # {}
           /\ ~reqs'[r].err)
          => reqs'[r].pc = "exit" /\ reqs'[r].status = 400 /\ db' = db
       /\ (reqs'[r].op = "add_ip" /\ reqs'[r].pc = "insert")
          => RowsFor(db', reqs'[r].args.ip) = {}]_vars

\* C2 witness: the second create of 1.2.3.4 (the table starts without it) has
\* been answered 400.
C2_Witness ==
  \E r \in Requests :
    /\ Is(r, "add_ip", "exit") /\ reqs[r].status = 400
    /\ reqs[r].args.ip = Ip1234 /\ Cardinality(RowsFor(db, Ip1234)) = 1

SuccessfulCreates(ip) ==
  {r \in Requests : Is(r, "add_ip", "exit") /\ reqs[r].status = 200 /\ reqs[r].args.ip = ip}

\* C3: every create answered with success has inserted a row of its own,
\* whatever rows its ip_address already had: the store holds at least as many
\* rows for an ip_address as there are creates of it just answered with
\* success, so two concurrent creates that both pass the check leave two rows.
C3_EverySuccessfulCreateInserted ==
  \A r \in Requests :
    Is(r, "add_ip", "exit") /\ reqs[r].status = 200 =>
      Cardinality(RowsFor(db, reqs[r].args.ip))
        >= Cardinality(SuccessfulCreates(reqs[r].args.ip))

\* C3 witness: both requests are creates of 1.2.3.4 answered with success and
\* the store holds two rows for it.
C3_Witness ==
  /\ SuccessfulCreates(Ip1234) = Requests
  /\ Cardinality(RowsFor(db, Ip1234)) = 2

\* C4: a filter search is answered 400 exactly when none of the seven filters
\* is supplied (a supplied 0 is a supplied filter), whatever the limit, and
\* then it has executed no statement.
C4_BadRequestIffNoFilter ==
  \A r \in Requests :
    Is(r, "get_ip_info_by_parameters", "exit") =>
      /\ reqs[r].status = 400 <=> Supplied(reqs[r].args.filters, FilterNames) = {}
      /\ reqs[r].status = 400 => reqs[r].stmts = 0

\* C4 witness: a search without filters and limit 1 answered 400, and a search
\* by latitude=0 alone that executed its SELECT and was answered 404.
C4_Witness ==
  \E r, q \in Requests :
    /\ Is(r, "get_ip_info_by_parameters", "exit") /\ reqs[r].status = 400
    /\ reqs[r].args.limit = 1
    /\ Is(q, "get_ip_info_by_parameters", "exit") /\ reqs[q].status = 404
    /\ reqs[q].args.filters = FilterByLatitude /\ reqs[q].stmts = 1

\* C5: a filter search with a filter present whose SELECT raises no error is
\* answered 404 when no stored row equals the supplied value on every present
\* filter, and otherwise 200 with min(limit, matching rows) records, each the
\* record of a matching stored row.
C5_SearchReturnsMatchingRows ==
  [][\A r \in Requests :
       (/\ Is(r, "get_ip_info_by_parameters", "select") /\ reqs'[r].pc = "exit"
        /\ Supplied(reqs[r].args.filters, FilterNames) # {}
        /\ ~reqs'[r].err)
       => LET matching == Matching(db, reqs[r].args.filters)
              body == reqs'[r].body
          IN  IF matching = {}
              THEN reqs'[r].status = 404
              ELSE /\ reqs'[r].status = 200
                   /\ Len(body) = Smaller(reqs[r].args.limit, Cardinality(matching))
                   /\ Len(body) >= 1
                   /\ \A k \in 1..Len(body) :
                        \E i \in matching : body[k] = RecordOf(db[i])]_vars

\* C5 witness: a search by latitude=0 with limit 1 answered with one record
\* while two stored rows have latitude 0.
C5_Witness ==
  \E r \in Requests :
    /\ Is(r, "get_ip_info_by_parameters", "exit") /\ reqs[r].status = 200
    /\ reqs[r].args.filters = FilterByLatitude /\ reqs[r].args.limit = 1
    /\ Len(reqs[r].body) = 1
    /\ Cardinality(Matching(db, FilterByLatitude)) = 2

\* C6: an update with none of the six fields supplied is answered 400 with no
\* statement executed, whether or not its ip_address has a row; an update with
\* a field supplied whose ip_address has no row is answered 404 (its SELECT
\* raising no error); either way the store is unchanged.
C6_UpdateRejected ==
  [][\A r \in Requests :
       Is(r, "update_data", "check") /\ reqs'[r].pc # "check" =>
         /\ Supplied(reqs[r].args, UpdateNames) = {}
            => /\ reqs'[r].pc = "exit" /\ reqs'[r].status = 400
               /\ reqs'[r].stmts = 0 /\ db' = db
         /\ (/\ Supplied(reqs[r].args, UpdateNames) # {}
             /\ RowsFor(db, reqs[r].ip) = {}
             /\ ~reqs'[r].err)
            => reqs'[r].pc = "exit" /\ reqs'[r].status = 404 /\ db' = db]_vars

\* C6 witness: an update without fields answered 400 while its ip_address has
\* a row, and an update with a field answered 404.
C6_Witness ==
  \E r, q \in Requests :
    /\ Is(r, "update_data", "exit") /\ reqs[r].status = 400 /\ reqs[r].stmts = 0
    /\ RowsFor(db, reqs[r].ip) # {}
    /\ Is(q, "update_data", "exit") /\ reqs[q].status = 404
    /\ Supplied(reqs[q].args, UpdateNames) # {}

\* C7: the UPDATE of an update request sets, in every row of its ip_address,
\* each supplied field to the supplied value (a supplied 0 too) and leaves the
\* other fields, the id and the ip_address as they were; the other rows are
\* unchanged and no row is added or removed.
C7_UpdateWritesOnlySupplied ==
  [][\A r \in Requests :
       Is(r, "update_data", "update") /\ reqs'[r].pc = "reread" =>
         /\ Len(db') = Len(db)
         /\ \A i \in 1..Len(db) :
              IF db[i].ip_address = reqs[r].ip
              THEN \A c \in DOMAIN db[i] :
                     LET names == {n \in Supplied(reqs[r].args, UpdateNames) :
                                     ColumnOf(n) = c}
                     IN  IF names = {}
                         THEN db'[i][c] = db[i][c]
                         ELSE \A n \in names : db'[i][c] \in reqs[r].args[n]
              ELSE db'[i] = db[i]]_vars

\* C7 witness: an update with latitude=0 has written both rows of 1.2.3.4:
\* latitude 0, country and zip as created.
C7_Witness ==
  \E r \in Requests :
    /\ Is(r, "update_data", "reread") /\ reqs[r].args.latitude = {0}
    /\ Cardinality(RowsFor(db, reqs[r].ip)) = 2
    /\ \A i \in RowsFor(db, reqs[r].ip) :
         db[i].latitude = 0 /\ db[i].country = poland /\ db[i].zip = 40514

Holders == {r \in Requests : reqs[r].conn}

\* C8: the open connections are exactly those held by the requests in flight,
\* one each: a request that has ended holds none, whatever its answer, and a
\* request of a handler that depends on get_db_session holds its own until
\* it ends.
C8_ConnectionReleased ==
  /\ open_connections = Cardinality(Holders)
  /\ \A r \in Requests :
       /\ Quiet(r) => ~reqs[r].conn
       /\ ~Quiet(r) /\ reqs[r].op # "index" => reqs[r].conn

\* C8 witness: a request answered 500 after a storage error and a request
\* answered 404 have both ended and no connection is open.
C8_Witness ==
  \E r, q \in Requests :
    /\ reqs[r].pc = "done" /\ reqs[r].status = 500
    /\ reqs[q].pc = "done" /\ reqs[q].status = 404
    /\ open_connections = 0

Pairs(d) == {<<d[i].id, d[i].ip_address>> : i \in 1..Len(d)}

ReadOps == {"index", "get_ip_info", "get_ip_info_by_parameters"}

\* C9: no step removes a row or changes a row's id or ip_address; the set of
\* (id, ip_address) pairs grows only in the INSERT of a create answered with
\* success; no step of GET /, GET /ips/{ip} or GET /ips/ changes the store.
C9_RowsOnlyAdded ==
  [][/\ Len(db') >= Len(db)
     /\ \A i \in 1..Len(db) :
          db'[i].id = db[i].id /\ db'[i].ip_address = db[i].ip_address
     /\ Pairs(db) \subseteq Pairs(db')
     /\ Pairs(db') # Pairs(db) =>
          \E r \in Requests :
            /\ Is(r, "add_ip", "insert")
            /\ reqs'[r].pc = "exit" /\ reqs'[r].status = 200
     /\ \A r \in Requests :
          (/\ reqs'[r].pc # reqs[r].pc
           /\ reqs[r].op \in ReadOps \/ reqs'[r].op \in ReadOps)
          => db' = db]_vars

\* C9 witness: a create has just been answered with success and the store
\* holds the seed row and the new one.
C9_Witness ==
  \E r \in Requests :
    /\ Is(r, "add_ip", "exit") /\ reqs[r].status = 200
    /\ Pairs(db) = Pairs(SeedTable) \cup {<<2, Ip1234>>}

\* The record an update answers with has the supplied fields as supplied and
\* the other fields as in the row its existence check read.
AnswersOwnUpdate(r) ==
  LET record == reqs'[r].body[1]
      before == reqs[r].rows[1]
  IN  /\ record.ip_address = reqs[r].ip
      /\ \A n \in UpdateNames :
           IF n \in Supplied(reqs[r].args, UpdateNames)
           THEN record[n] \in reqs[r].args[n]
           ELSE record[n] = before[ColumnOf(n)]

UpdateAnswered(r) ==
  Is(r, "update_data", "reread") /\ reqs'[r].pc = "exit" /\ reqs'[r].status = 200

\* C10 as claimed: every update answered 200 returns the supplied fields as
\* supplied and the other fields as they were, also when another update of
\* the same ip_address runs concurrently.
C10_AsClaimed ==
  [][\A r \in Requests : UpdateAnswered(r) => AnswersOwnUpdate(r)]_vars

\* C10 amended: an update answered 200 returns the supplied fields as supplied
\* and the other fields as its existence check read them, provided no other
\* request's UPDATE of the same ip_address committed between its existence
\* check and its re-read.
C10_UpdateAnswerUnlessRaced ==
  [][\A r \in Requests :
       UpdateAnswered(r) /\ ~reqs[r].raced => AnswersOwnUpdate(r)]_vars

\* C10 witness: an update was answered 200 with city Krakow, no UPDATE of
\* another request having fallen in between, while another update of the same
\* ip_address is past its existence check.
C10_Witness ==
  \E r, q \in Requests :
    /\ Is(r, "update_data", "exit") /\ reqs[r].status = 200 /\ ~reqs[r].raced
    /\ reqs[r].body[1].city = Krakow
    /\ Is(q, "update_data", "update") /\ reqs[q].ip = reqs[r].ip

====
